---------------------------- MODULE Spec2Model ----------------------------
(***************************************************************************)
(* Model of the registry-backed tool server of tx3-lang/mcp               *)
(* (src/src/tools/protocol.rs): ProtocolTool::run_protocols_query,        *)
(* ServerHandler::list_tools and ServerHandler::call_tool.                *)
(*                                                                         *)
(* Program strings (tool names, protocol, transaction and parameter       *)
(* names, argument values) are sequences of one-character strings, so      *)
(* that format! is concatenation and str::split really splits.  Opaque    *)
(* values (protocol source text, type enum members, error codes) are TLA+ *)
(* strings.  Option<T> is a sequence of length 0 (None) or 1 (Some).      *)
(***************************************************************************)
EXTENDS Integers, Sequences, FiniteSets, TLC

(***************************************************************************)
(* Bounds of the model.                                                    *)
(***************************************************************************)
\* nodes in one registry response (specification SpecLoader)
MaxNodes == 2
\* arguments in one call_tool request (specification Spec)
MaxArgs == 2
\* invocations in flight at once (specification SpecConc)
NumInv == 2

(***************************************************************************)
(* Strings.                                                                *)
(***************************************************************************)
Dash == "-"
W_resolve == <<"r", "e", "s", "o", "l", "v", "e">>
W_describe == <<"d", "e", "s", "c", "r", "i", "b", "e">>
W_swap == <<"s", "w", "a", "p">>
W_mint == <<"m", "i", "n", "t">>
W_burn == <<"b", "u", "r", "n">>
W_nope == <<"n", "o", "p", "e">>
W_true == <<"t", "r", "u", "e">>
W_false == <<"f", "a", "l", "s", "e">>
W_notabool == <<"n", "o", "t", "a", "b", "o", "o", "l">>
W_abc == <<"a", "b", "c">>
W_42 == <<"4", "2">>
W_neg7 == <<"-", "7">>

\* the elements of a sequence
Range(s) == {s[k] : k \in 1..Len(s)}

\* all sequences over S of length at most n
SeqUpTo(S, n) == UNION {[1..k -> S] : k \in 0..n}

\* str::split("-").collect::<Vec<&str>>(): every occurrence of the
\* delimiter ends a component; the empty string gives one empty component.
RECURSIVE SplitAcc(_, _, _)
SplitAcc(s, cur, acc) ==
    IF s = <<>> THEN Append(acc, cur)
    ELSE IF Head(s) = Dash THEN SplitAcc(Tail(s), <<>>, Append(acc, cur))
    ELSE SplitAcc(Tail(s), Append(cur, Head(s)), acc)

SplitDash(s) == SplitAcc(s, <<>>, <<>>)

\* slice::get(k) on a Vec, k counted from 0
VecGet(v, k) == IF k + 1 <= Len(v) THEN <<v[k + 1]>> ELSE <<>>

(***************************************************************************)
(* Results returned to the transport.  An invocation ends in              *)
(*   Ok(ListToolsResult)  kind "tools"                                    *)
(*   Ok(CallToolResult)   kind "success"                                  *)
(*   Err(McpError)        kind "error": a reported error                  *)
(*   a panic              kind "panic": Result::unwrap / Option::unwrap   *)
(*                        on the failing variant unwinds the task, the    *)
(*                        caller gets no result                           *)
(* A message is the format! string and its interpolated arguments.        *)
(***************************************************************************)
RESOURCE_NOT_FOUND == "RESOURCE_NOT_FOUND"
INTERNAL_ERROR == "INTERNAL_ERROR"

Fmt(f, a) == [fmt |-> f, args |-> a]
NoMessage == Fmt("", <<>>)

Outcome(k, c, m, ct, t) ==
    [kind |-> k, code |-> c, message |-> m, content |-> ct, tools |-> t]

NoOutcome == Outcome("none", "", NoMessage, <<>>, <<>>)
\* McpError::new(code, message, None) returned as Err
McpError(c, m) == Outcome("error", c, m, <<>>, <<>>)
\* the error value is built and then handed to Result::unwrap
Panic(c, m) == Outcome("panic", c, m, <<>>, <<>>)
\* CallToolResult::success(vec![content])
Success(ct) == Outcome("success", "", NoMessage, <<ct>>, <<>>)
ListToolsResult(t) == Outcome("tools", "", NoMessage, <<>>, t)

NoParams == <<>>
\* Content::text(s)
ContentText(s) ==
    [type |-> "text", text |-> s, protocol |-> <<>>, transaction |-> <<>>,
     parameters |-> NoParams]
\* Content::json(response) of the describe payload
ContentJson(p, t, ps) ==
    [type |-> "json", text |-> <<>>, protocol |-> p, transaction |-> t,
     parameters |-> ps]

(***************************************************************************)
(* External collaborators.                                                 *)
(***************************************************************************)
\* Dapp { scope, name, protocol: Option<String> }: the nodes the Registry
\* Source can hold.  The protocol field is opaque source text.
Dapp(s, n, p) == [scope |-> s, name |-> n, protocol |-> p]

Dapps ==
    { Dapp(<<"a">>, <<"b">>, <<"src_ab">>),
      Dapp(<<"c">>, <<"d">>, <<>>),
      Dapp(<<"c">>, <<"c">>, <<"src_c">>),
      Dapp(<<"e">>, <<"e">>, <<"src_bad">>) }

\* GraphQlResponse.data: None, or Some(ProtocolsQuery) with dapps.nodes
NoData == <<>>
SomeData(nodes) == <<nodes>>

\* ir::Type: the members call_tool dispatches on and one it does not
TypeInt == "Int"
TypeBool == "Bool"
TypeBytes == "Bytes"
TypeAddress == "Address"
TypeUtxoRef == "UtxoRef"

Param(n, t) == [name |-> n, type |-> t]
Tx(n, ps) == [name |-> n, params |-> ps]

\* tx3_lang::Protocol::from_string(content).load(): Ok with the
\* transactions of the source text (each with the parameter map that
\* new_tx(name).find_params() reports, in the map's key order), or Err.
Tx3Load(content) ==
    CASE content = "src_ab" ->
           [ok |-> TRUE,
            txs |-> << Tx(W_swap, << Param(<<"d">>, TypeBytes),
                                     Param(<<"k">>, TypeBool),
                                     Param(<<"q">>, TypeInt),
                                     Param(<<"t">>, TypeAddress),
                                     Param(<<"u">>, TypeUtxoRef) >>),
                       Tx(W_mint, <<>>) >>]
      [] content = "src_c" ->
           [ok |-> TRUE, txs |-> << Tx(W_burn, << Param(<<"q">>, TypeInt) >>) >>]
      [] OTHER -> [ok |-> FALSE, txs |-> <<>>]

\* tx3_protocol.new_tx(name): the transaction of that name, or Err
NewTx(txs, name) ==
    LET hit == SelectSeq(txs, LAMBDA t : t.name = name)
    IN  IF hit = <<>> THEN <<>> ELSE <<hit[1]>>

\* BTreeMap::get on the parameter-type map
ParamsGet(params, name) ==
    LET hit == SelectSeq(params, LAMBDA p : p.name = name)
    IN  IF hit = <<>> THEN <<>> ELSE <<hit[1].type>>

\* format!("{:?}", param_type)
TypeDebug(t) ==
    CASE t = TypeInt -> <<"I", "n", "t">>
      [] t = TypeBool -> <<"B", "o", "o", "l">>
      [] t = TypeBytes -> <<"B", "y", "t", "e", "s">>
      [] t = TypeAddress -> <<"A", "d", "d", "r", "e", "s", "s">>
      [] OTHER -> <<"U", "t", "x", "o", "R", "e", "f">>

(***************************************************************************)
(* ProtocolTool::run_protocols_query, after the response arrived.          *)
(***************************************************************************)
\* Protocol { name, content }
Protocol(n, c) == [name |-> n, content |-> c]

\* faulty variant: the two parts of the name change places
ProtocolName_swapped(dapp) == dapp.name \o <<"_">> \o dapp.scope

\* format!("{}_{}", dapp.scope, dapp.name)
ProtocolName(dapp) == dapp.scope \o <<"_">> \o dapp.name

\* .filter(|dapp| dapp.protocol.is_some())
HasProtocol(dapp) == dapp.protocol # <<>>

ToProtocol(dapp) == Protocol(ProtocolName(dapp), dapp.protocol[1])

run_protocols_query(data) ==
    IF data = NoData THEN <<>>
    ELSE LET kept == SelectSeq(data[1], HasProtocol)
         IN  [k \in 1..Len(kept) |-> ToProtocol(kept[k])]

(***************************************************************************)
(* ServerHandler::list_tools, after the protocols were fetched.            *)
(***************************************************************************)
\* serde_json::Map::insert: replaces the value of a present key
MapInsert(m, k, v) ==
    IF \E j \in 1..Len(m) : m[j].key = k
    THEN [j \in 1..Len(m) |-> IF m[j].key = k THEN [key |-> k, value |-> v] ELSE m[j]]
    ELSE Append(m, [key |-> k, value |-> v])

RECURSIVE PropertiesOf(_)
PropertiesOf(params) ==
    IF params = <<>> THEN <<>>
    ELSE MapInsert(PropertiesOf(SubSeq(params, 1, Len(params) - 1)),
                   params[Len(params)].name, "string")

RequiredOf(params) == [k \in 1..Len(params) |-> params[k].name]

EmptySchema ==
    [keys |-> {}, title |-> <<>>, properties |-> <<>>, required |-> <<>>]

ResolveSchema(protocol, tx) ==
    [keys |-> {"type", "$schema", "title", "properties", "required"},
     title |-> W_resolve \o <<"_">> \o protocol.name \o <<"_">> \o tx.name
               \o <<"_", "p", "a", "r", "a", "m", "s">>,
     properties |-> PropertiesOf(tx.params),
     required |-> RequiredOf(tx.params)]

Annotations(t) ==
    [title |-> t, read_only_hint |-> TRUE, destructive_hint |-> FALSE,
     idempotent_hint |-> FALSE, open_world_hint |-> TRUE]

\* format!("resolve-{}-{}", protocol.name, tx.name)
ToolName(action, pname, txname) ==
    action \o <<Dash>> \o pname \o <<Dash>> \o txname

ResolveTool(protocol, tx) ==
    [name |-> ToolName(W_resolve, protocol.name, tx.name),
     description |-> Fmt("Resolves the transaction '{}' from the protocol '{}'",
                         <<tx.name, protocol.name>>),
     annotations |-> Annotations(Fmt("Resolve {} {}", <<protocol.name, tx.name>>)),
     input_schema |-> ResolveSchema(protocol, tx)]

DescribeTool(protocol, tx) ==
    [name |-> ToolName(W_describe, protocol.name, tx.name),
     description |-> Fmt("Describes the transaction '{}' from the protocol '{}' and shows the required parameters",
                         <<tx.name, protocol.name>>),
     annotations |-> Annotations(Fmt("Describe {} {}", <<protocol.name, tx.name>>)),
     input_schema |-> EmptySchema]

\* faulty variant: the two descriptors are pushed in the other order
ToolsOfTx_swapped(protocol, tx) ==
    << DescribeTool(protocol, tx), ResolveTool(protocol, tx) >>

\* the two tools.push of one turn of the inner loop
ToolsOfTx(protocol, tx) == << ResolveTool(protocol, tx), DescribeTool(protocol, tx) >>

RECURSIVE ToolsOfTxs(_, _)
ToolsOfTxs(protocol, txs) ==
    IF txs = <<>> THEN <<>>
    ELSE ToolsOfTx(protocol, Head(txs)) \o ToolsOfTxs(protocol, Tail(txs))

RECURSIVE ToolsOfProtocols(_)
ToolsOfProtocols(protocols) ==
    IF protocols = <<>> THEN <<>>
    ELSE ToolsOfTxs(Head(protocols), Tx3Load(Head(protocols).content).txs)
         \o ToolsOfProtocols(Tail(protocols))

\* load().unwrap() panics on the first protocol that does not compile;
\* new_tx(tx.name) of a transaction that txs() lists is Ok
list_tools(protocols) ==
    IF \E k \in 1..Len(protocols) : ~Tx3Load(protocols[k].content).ok
    THEN Panic("", NoMessage)
    ELSE ListToolsResult(ToolsOfProtocols(protocols))

(***************************************************************************)
(* ServerHandler::call_tool: decoding of the operation name.               *)
(***************************************************************************)
Decoded(o, p, t) == [operation_name |-> o, protocol_name |-> p, transaction_name |-> t]
NoDecoded == Decoded(<<>>, <<>>, <<>>)

\* name.get(k).ok_or_else(|| McpError::new(..)).unwrap() for k = 0, 1, 2:
\* the McpError of a missing component goes to unwrap, which panics
Decode(name) ==
    LET parts == SplitDash(name)
    IN  IF VecGet(parts, 0) = <<>>
        THEN [ok |-> FALSE, names |-> NoDecoded,
              outcome |-> Panic(RESOURCE_NOT_FOUND, Fmt("Operation not found", <<>>))]
        ELSE IF VecGet(parts, 1) = <<>>
        THEN [ok |-> FALSE, names |-> NoDecoded,
              outcome |-> Panic(RESOURCE_NOT_FOUND, Fmt("Protocol name not found", <<>>))]
        ELSE IF VecGet(parts, 2) = <<>>
        THEN [ok |-> FALSE, names |-> NoDecoded,
              outcome |-> Panic(RESOURCE_NOT_FOUND, Fmt("Transaction name not found", <<>>))]
        ELSE [ok |-> TRUE,
              names |-> Decoded(VecGet(parts, 0)[1], VecGet(parts, 1)[1], VecGet(parts, 2)[1]),
              outcome |-> NoOutcome]

(***************************************************************************)
(* ServerHandler::call_tool: coercion of the arguments.                    *)
(***************************************************************************)
\* serde_json::Value: a string, or anything else (as_str gives None)
JString(s) == [tag |-> "String", s |-> s]
JNumber(s) == [tag |-> "Number", s |-> s]
Arg(n, v) == [name |-> n, value |-> v]

\* tx3_lang::ArgValue
ArgInt(n) == [tag |-> "Int", int |-> n, bool |-> FALSE, str |-> <<>>]
ArgBool(b) == [tag |-> "Bool", int |-> 0, bool |-> b, str |-> <<>>]
ArgString(s) == [tag |-> "String", int |-> 0, bool |-> FALSE, str |-> s]

Digits == {"0", "1", "2", "3", "4", "5", "6", "7", "8", "9"}

DigitVal(c) ==
    CASE c = "0" -> 0 [] c = "1" -> 1 [] c = "2" -> 2 [] c = "3" -> 3
      [] c = "4" -> 4 [] c = "5" -> 5 [] c = "6" -> 6 [] c = "7" -> 7
      [] c = "8" -> 8 [] OTHER -> 9

RECURSIVE DigitsVal(_, _)
DigitsVal(s, acc) ==
    IF s = <<>> THEN acc ELSE DigitsVal(Tail(s), acc * 10 + DigitVal(Head(s)))

\* str::parse::<i128>(): an optional sign, then one or more decimal digits.
\* The literals of the model are far below 2^127, the range check of the
\* parser never rejects one of them.
ParseI128(s) ==
    LET signed == s # <<>> /\ Head(s) \in {"+", "-"}
        body == IF signed THEN Tail(s) ELSE s
    IN  IF body = <<>> \/ \E k \in 1..Len(body) : body[k] \notin Digits
        THEN [ok |-> FALSE, val |-> 0]
        ELSE [ok |-> TRUE,
              val |-> IF signed /\ Head(s) = "-" THEN 0 - DigitsVal(body, 0)
                      ELSE DigitsVal(body, 0)]

\* str::parse::<bool>(): exactly "true" or "false"
ParseBool(s) ==
    IF s = W_true THEN [ok |-> TRUE, val |-> TRUE]
    ELSE IF s = W_false THEN [ok |-> TRUE, val |-> FALSE]
    ELSE [ok |-> FALSE, val |-> FALSE]

\* HashMap::insert
HashMapInsert(m, k, v) == {e \in m : e.key # k} \cup {[key |-> k, value |-> v]}

Coerced(ok, v, o) == [ok |-> ok, value |-> v, outcome |-> o]

\* the four type tests of one turn of the loop, then arg_value.is_none()
CoerceValue(arg_type, string_value, arg_name) ==
    IF arg_type = TypeInt
    THEN IF ParseI128(string_value).ok
         THEN Coerced(TRUE, ArgInt(ParseI128(string_value).val), NoOutcome)
         ELSE Coerced(FALSE, ArgInt(0), Panic("", Fmt("ParseIntError", <<>>)))
    ELSE IF arg_type = TypeBool
    THEN IF ParseBool(string_value).ok
         THEN Coerced(TRUE, ArgBool(ParseBool(string_value).val), NoOutcome)
         ELSE Coerced(FALSE, ArgInt(0), Panic("", Fmt("ParseBoolError", <<>>)))
    ELSE IF arg_type = TypeBytes
    THEN Coerced(TRUE, ArgString(string_value), NoOutcome)
    ELSE IF arg_type = TypeAddress
    THEN Coerced(TRUE, ArgString(string_value), NoOutcome)
    ELSE Coerced(FALSE, ArgInt(0),
                 McpError(RESOURCE_NOT_FOUND,
                          Fmt("Invalid value provided for parameter {}", <<arg_name>>)))

\* one turn of the loop over the caller's arguments
CoerceOne(parameters_types, arg, transaction_name, protocol_name) ==
    IF arg.value.tag # "String"
    THEN Coerced(FALSE, ArgInt(0),
                 Panic(RESOURCE_NOT_FOUND,
                       Fmt("Invalid value provided for parameter {}", <<arg.name>>)))
    ELSE IF ParamsGet(parameters_types, arg.name) = <<>>
    THEN Coerced(FALSE, ArgInt(0),
                 Panic(RESOURCE_NOT_FOUND,
                       Fmt("Parameter {} not found for transaction {} in protocol {}",
                           <<arg.name, transaction_name, protocol_name>>)))
    ELSE CoerceValue(ParamsGet(parameters_types, arg.name)[1], arg.value.s, arg.name)

\* the loop: the first argument that fails ends the invocation
RECURSIVE CoerceArgs(_, _, _, _, _)
CoerceArgs(parameters_types, rest, args, transaction_name, protocol_name) ==
    IF rest = <<>> THEN [ok |-> TRUE, args |-> args, outcome |-> NoOutcome]
    ELSE LET c == CoerceOne(parameters_types, Head(rest), transaction_name, protocol_name)
         IN  IF ~c.ok THEN [ok |-> FALSE, args |-> args, outcome |-> c.outcome]
             ELSE CoerceArgs(parameters_types, Tail(rest),
                             HashMapInsert(args, Head(rest).name, c.value),
                             transaction_name, protocol_name)

(***************************************************************************)
(* ServerHandler::call_tool: from the fetched protocols to the result or   *)
(* to the request sent to the Resolver Service.                            *)
(***************************************************************************)
\* ProtoTxRequest { tir: TirInfo { bytecode, encoding, version }, args };
\* the bytecode is hex::encode(prototx.ir_bytes()), opaque, one per
\* transaction of a source text
ProtoTxRequest(content, txname, args) ==
    [bytecode |-> [content |-> content, tx |-> txname], encoding |-> "hex",
     version |-> "IR_VERSION", args |-> args]

\* the parameters object of the describe payload
RECURSIVE DescribeParams(_)
DescribeParams(params) ==
    IF params = <<>> THEN <<>>
    ELSE MapInsert(DescribeParams(SubSeq(params, 1, Len(params) - 1)),
                   params[Len(params)].name, TypeDebug(params[Len(params)].type))

\* request.arguments.is_some().then(..).unwrap_or_default()
ArgumentsOrDefault(arguments) == IF arguments = <<>> THEN <<>> ELSE arguments[1]

\* protocols.iter().find(|p| p.name == protocol_name)
FindProtocol(protocols, protocol_name) ==
    LET hit == SelectSeq(protocols, LAMBDA p : p.name = protocol_name)
    IN  IF hit = <<>> THEN <<>> ELSE <<hit[1]>>

Done(o) == [next |-> "done", outcome |-> o, request |-> <<>>]
Send(r) == [next |-> "resolve", outcome |-> NoOutcome, request |-> <<r>>]

\* faulty variant: the test of the action is made against the other action
IsDescribe_swapped(operation_name) == operation_name = W_resolve

IsDescribe(operation_name) == operation_name = W_describe

AfterParams(d, arguments, content, prototx) ==
    IF IsDescribe(d.operation_name)
    THEN Done(Success(ContentJson(d.protocol_name, d.transaction_name,
                                  DescribeParams(prototx.params))))
    ELSE LET c == CoerceArgs(prototx.params, ArgumentsOrDefault(arguments), {},
                             d.transaction_name, d.protocol_name)
         IN  IF ~c.ok THEN Done(c.outcome)
             ELSE Send(ProtoTxRequest(content, d.transaction_name, c.args))

call_tool_resume(d, arguments, protocols) ==
    LET protocol == FindProtocol(protocols, d.protocol_name)
    IN  IF protocol = <<>>
        THEN Done(Panic(RESOURCE_NOT_FOUND,
                        Fmt("Protocol {} not found", <<d.protocol_name>>)))
        ELSE IF ~Tx3Load(protocol[1].content).ok
        THEN Done(Panic("", Fmt("load", <<>>)))
        ELSE IF NewTx(Tx3Load(protocol[1].content).txs, d.transaction_name) = <<>>
        THEN Done(McpError(RESOURCE_NOT_FOUND,
                           Fmt("Transaction {} not found for protocol {}",
                               <<d.transaction_name, d.protocol_name>>)))
        ELSE AfterParams(d, arguments, protocol[1].content,
                         NewTx(Tx3Load(protocol[1].content).txs, d.transaction_name)[1])

\* Result<TxEnvelope, Error> of client.resolve; message is the Display
\* text of the error
TrpOk(tx) == [ok |-> TRUE, tx |-> tx, message |-> <<>>]
TrpErr(m) == [ok |-> FALSE, tx |-> <<>>, message |-> m]

\* faulty variant: the failure of the service is returned as if it were its answer
call_tool_finish_swallow(result) ==
    Success(ContentText(IF result.ok THEN result.tx ELSE result.message))

call_tool_finish(result) ==
    IF ~result.ok
    THEN McpError(INTERNAL_ERROR,
                  Fmt("Error resolving transaction: {}", <<result.message>>))
    ELSE Success(ContentText(result.tx))

(***************************************************************************)
(* Inputs.                                                                 *)
(***************************************************************************)
Name1(a) == a
Name2(a, p) == a \o <<Dash>> \o p
P_ab == <<"a", "_", "b">>
P_cc == <<"c", "_", "c">>
P_ee == <<"e", "_", "e">>

\* operation names of specification Spec
AllNames ==
    { <<>>, Name1(W_resolve), Name2(W_resolve, P_ab), Name2(W_describe, P_ab),
      ToolName(W_resolve, P_ab, W_swap), ToolName(W_describe, P_ab, W_swap),
      ToolName(W_resolve, P_ab, W_mint), ToolName(W_describe, P_ab, W_mint),
      ToolName(W_resolve, P_ab, W_nope), ToolName(W_describe, P_cc, W_burn),
      ToolName(W_resolve, P_ee, W_swap) }

\* operation names of specifications SpecLoader and SpecConc
FewNames ==
    { Name2(W_resolve, P_ab), ToolName(W_resolve, P_ab, W_swap),
      ToolName(W_describe, P_cc, W_burn) }

\* (name, value) pairs a caller can supply
ArgPairs ==
    { Arg(<<"q">>, JString(W_42)), Arg(<<"q">>, JString(W_neg7)),
      Arg(<<"q">>, JString(W_abc)), Arg(<<"q">>, JNumber(W_42)),
      Arg(<<"k">>, JString(W_true)), Arg(<<"k">>, JString(W_notabool)),
      Arg(<<"d">>, JString(W_abc)), Arg(<<"t">>, JString(W_abc)),
      Arg(<<"u">>, JString(W_abc)), Arg(<<"z">>, JString(W_42)) }

\* a JSON object in its iteration order: the keys are distinct
DistinctNames(l) == \A j, k \in 1..Len(l) : j # k => l[j].name # l[k].name

\* request.arguments: None, or Some(object)
ArgumentsUpTo(n) ==
    {<<>>} \cup {<<l>> : l \in {x \in SeqUpTo(ArgPairs, n) : DistinctNames(x)}}

FewArguments == {<<>>, << <<Arg(<<"q">>, JString(W_42))>> >>}

\* what the Registry Source can hold
RegistryUpTo(n) == {NoData} \cup {SomeData(ns) : ns \in SeqUpTo(Dapps, n)}

FewRegistries ==
    { SomeData(<< Dapp(<<"a">>, <<"b">>, <<"src_ab">>) >>),
      SomeData(<< Dapp(<<"c">>, <<"d">>, <<>>), Dapp(<<"c">>, <<"c">>, <<"src_c">>) >>),
      SomeData(<< Dapp(<<"e">>, <<"e">>, <<"src_bad">>),
                  Dapp(<<"a">>, <<"b">>, <<"src_ab">>) >>) }

TwoRegistries ==
    { SomeData(<< Dapp(<<"a">>, <<"b">>, <<"src_ab">>) >>),
      SomeData(<< Dapp(<<"c">>, <<"c">>, <<"src_c">>) >>) }

\* what the Resolver Service can answer
TrpResults ==
    { TrpOk(<<"8", "4", "a", "0">>), TrpErr(<<"b", "o", "o", "m">>),
      TrpErr(<<"4", "0", "0">>) }

(***************************************************************************)
(* State.                                                                  *)
(***************************************************************************)
VARIABLES
    server,      \* ProtocolTool { registry_url, trp_url, trp_key }
    registry,    \* what the Registry Source holds now
    pc,          \* per invocation: where its task is
    request,     \* per invocation: the request it serves
    decoded,     \* per invocation: operation_name, protocol_name, transaction_name
    fetched,     \* per invocation: the registry response it received, if any
    protocols,   \* per invocation: the Vec<Protocol> of run_protocols_query
    sent,        \* per invocation: the request it sent to the Resolver Service
    reply,       \* per invocation: the Resolver Service's answer, if any
    regCalls,    \* per invocation: queries issued to the Registry Source
    trpCalls,    \* per invocation: calls issued to the Resolver Service
    outcome      \* per invocation: what it returned

vars ==
    <<server, registry, pc, request, decoded, fetched, protocols, sent, reply,
      regCalls, trpCalls, outcome>>

Request(m, n, a) == [method |-> m, name |-> n, arguments |-> a]
NoRequest == Request("none", <<>>, <<>>)

RegOk(data) == [ok |-> TRUE, data |-> data]
RegErr == [ok |-> FALSE, data |-> NoData]

\* ProtocolTool::new
NewServer ==
    [registry_url |-> "TX3_REGISTRY_URL", trp_url |-> "TRP_URL", trp_key |-> "TRP_KEY"]

InitOf(invs, regs) ==
    /\ server = NewServer
    /\ registry \in regs
    /\ pc = [i \in invs |-> "idle"]
    /\ request = [i \in invs |-> NoRequest]
    /\ decoded = [i \in invs |-> NoDecoded]
    /\ fetched = [i \in invs |-> <<>>]
    /\ protocols = [i \in invs |-> <<>>]
    /\ sent = [i \in invs |-> <<>>]
    /\ reply = [i \in invs |-> <<>>]
    /\ regCalls = [i \in invs |-> 0]
    /\ trpCalls = [i \in invs |-> 0]
    /\ outcome = [i \in invs |-> NoOutcome]

(***************************************************************************)
(* Actions.  The awaits on the Registry Source and on the Resolver Service *)
(* are the only suspension points of a task.                               *)
(***************************************************************************)
\* faulty variant: the query is run a second time
QueryIssued_twice(n) == n + 2

\* surf::post(self.registry_url.clone()).run_graphql(query): one query
QueryIssued(n) == n + 1

\* the Registry Source changes between two queries
RegistryChange(d) ==
    /\ d # registry
    /\ registry' = d
    /\ UNCHANGED <<server, pc, request, decoded, fetched, protocols, sent, reply,
                   regCalls, trpCalls, outcome>>

\* list_tools up to the await of the query
StartListTools(i) ==
    /\ pc[i] = "idle"
    /\ request' = [request EXCEPT ![i] = Request("list_tools", <<>>, <<>>)]
    /\ regCalls' = [regCalls EXCEPT ![i] = QueryIssued(@)]
    /\ pc' = [pc EXCEPT ![i] = "list_query"]
    /\ UNCHANGED <<server, registry, decoded, fetched, protocols, sent, reply,
                   trpCalls, outcome>>

\* call_tool up to the await of the query, or to the panic of the decoding
StartCallTool(i, name, arguments) ==
    /\ pc[i] = "idle"
    /\ request' = [request EXCEPT ![i] = Request("call_tool", name, arguments)]
    /\ IF Decode(name).ok
       THEN /\ decoded' = [decoded EXCEPT ![i] = Decode(name).names]
            /\ regCalls' = [regCalls EXCEPT ![i] = QueryIssued(@)]
            /\ pc' = [pc EXCEPT ![i] = "call_query"]
            /\ UNCHANGED outcome
       ELSE /\ outcome' = [outcome EXCEPT ![i] = Decode(name).outcome]
            /\ pc' = [pc EXCEPT ![i] = "done"]
            /\ UNCHANGED <<decoded, regCalls>>
    /\ UNCHANGED <<server, registry, fetched, protocols, sent, reply, trpCalls>>

\* faulty variant: the definitions are kept in a cache shared by the invocations,
\* filled by the first that fetched
ProtocolsOf_shared(own, held) ==
    IF \E j \in DOMAIN held : held[j] # <<>>
    THEN held[CHOOSE j \in DOMAIN held : held[j] # <<>>]
    ELSE own

\* the protocols an invocation works on: the ones it fetched itself
ProtocolsOf(own, held) == own

\* the query fails: .await.unwrap() panics
RegistryFail(i) ==
    /\ pc[i] \in {"list_query", "call_query"}
    /\ fetched' = [fetched EXCEPT ![i] = <<RegErr>>]
    /\ outcome' = [outcome EXCEPT ![i] = Panic("", Fmt("run_graphql", <<>>))]
    /\ pc' = [pc EXCEPT ![i] = "done"]
    /\ UNCHANGED <<server, registry, request, decoded, protocols, sent, reply,
                   regCalls, trpCalls>>

\* the query of list_tools answers: the rest of list_tools
ListToolsRespond(i) ==
    /\ pc[i] = "list_query"
    /\ fetched' = [fetched EXCEPT ![i] = <<RegOk(registry)>>]
    /\ protocols' = [protocols EXCEPT ![i] = run_protocols_query(registry)]
    /\ outcome' = [outcome EXCEPT ![i] =
                     list_tools(ProtocolsOf(run_protocols_query(registry), protocols))]
    /\ pc' = [pc EXCEPT ![i] = "done"]
    /\ UNCHANGED <<server, registry, request, decoded, sent, reply, regCalls, trpCalls>>

\* client.resolve(..): one call, to self.trp_url with the dmtr-api-key header
ResolveIssued(n) == n + 1

TrpCall(srv, r) == [endpoint |-> srv.trp_url, key |-> srv.trp_key, body |-> r]

\* the query of call_tool answers: call_tool up to its return or to the
\* await of client.resolve
CallToolRespond(i) ==
    /\ pc[i] = "call_query"
    /\ fetched' = [fetched EXCEPT ![i] = <<RegOk(registry)>>]
    /\ protocols' = [protocols EXCEPT ![i] = run_protocols_query(registry)]
    /\ LET r == call_tool_resume(decoded[i], request[i].arguments,
                                 ProtocolsOf(run_protocols_query(registry), protocols))
       IN  IF r.next = "done"
           THEN /\ outcome' = [outcome EXCEPT ![i] = r.outcome]
                /\ pc' = [pc EXCEPT ![i] = "done"]
                /\ UNCHANGED <<sent, trpCalls>>
           ELSE /\ sent' = [sent EXCEPT ![i] = <<TrpCall(server, r.request[1])>>]
                /\ trpCalls' = [trpCalls EXCEPT ![i] = ResolveIssued(@)]
                /\ pc' = [pc EXCEPT ![i] = "call_resolve"]
                /\ UNCHANGED outcome
    /\ UNCHANGED <<server, registry, request, decoded, reply, regCalls>>

\* client.resolve answers: the end of call_tool
ResolverRespond(i, result) ==
    /\ pc[i] = "call_resolve"
    /\ reply' = [reply EXCEPT ![i] = <<result>>]
    /\ outcome' = [outcome EXCEPT ![i] = call_tool_finish(result)]
    /\ pc' = [pc EXCEPT ![i] = "done"]
    /\ UNCHANGED <<server, registry, request, decoded, fetched, protocols, sent,
                   regCalls, trpCalls>>

NextOf(invs, regs, names, argss) ==
    \/ \E d \in regs : RegistryChange(d)
    \/ \E i \in invs : StartListTools(i)
    \/ \E i \in invs : \E n \in names : \E a \in argss : StartCallTool(i, n, a)
    \/ \E i \in invs : RegistryFail(i)
    \/ \E i \in invs : ListToolsRespond(i)
    \/ \E i \in invs : CallToolRespond(i)
    \/ \E i \in invs : \E r \in TrpResults : ResolverRespond(i, r)

(***************************************************************************)
(* Specifications.                                                         *)
(***************************************************************************)
\* one invocation, every operation name and argument list
Init == InitOf({1}, FewRegistries)
Next == NextOf({1}, FewRegistries, AllNames, ArgumentsUpTo(MaxArgs))
Spec == Init /\ [][Next]_vars

\* one invocation, every registry content
InitLoader == InitOf({1}, RegistryUpTo(MaxNodes))
NextLoader == NextOf({1}, RegistryUpTo(MaxNodes), FewNames, FewArguments)
SpecLoader == InitLoader /\ [][NextLoader]_vars

\* concurrent invocations
InitConc == InitOf(1..NumInv, TwoRegistries)
NextConc == NextOf(1..NumInv, TwoRegistries, FewNames, FewArguments)
SpecConc == InitConc /\ [][NextConc]_vars

\* registry contents whose names meet the delimiters of the naming: a
\* scope holding "-", and two nodes whose "<scope>_<name>" is the same
RoundRegistries ==
    { SomeData(<< Dapp(<<"a">>, <<"b">>, <<"src_ab">>),
                  Dapp(<<"c">>, <<"c">>, <<"src_c">>) >>),
      SomeData(<< Dapp(<<"a", "-", "x">>, <<"b">>, <<"src_c">>) >>),
      SomeData(<< Dapp(<<"a">>, <<"b", "_", "c">>, <<"src_ab">>),
                  Dapp(<<"a", "_", "b">>, <<"c">>, <<"src_c">>) >>) }

\* the operation names list_tools emits for those contents
RoundNames ==
    UNION { {list_tools(run_protocols_query(d)).tools[k].name :
                k \in 1..Len(list_tools(run_protocols_query(d)).tools)} :
            d \in RoundRegistries }

\* a list_tools and a call_tool of a listed name
InitRound == InitOf(1..NumInv, RoundRegistries)
NextRound == NextOf(1..NumInv, RoundRegistries, RoundNames, {<<>>})
SpecRound == InitRound /\ [][NextRound]_vars

(***************************************************************************)
(* Properties.                                                             *)
(***************************************************************************)
Invs == DOMAIN pc

IsCall(i) == request[i].method = "call_tool"
IsList(i) == request[i].method = "list_tools"
FetchedOk(i) == fetched[i] # <<>> /\ fetched[i][1].ok

\* the definitions of the decoded protocol name among those the invocation loaded
Named(i) == SelectSeq(protocols[i], LAMBDA p : p.name = decoded[i].protocol_name)

\* the invocation decoded its name, loaded the definitions, and the decoded
\* protocol is among them, compiles, and has the decoded transaction
TxFound(i) ==
    /\ IsCall(i) /\ Decode(request[i].name).ok /\ FetchedOk(i)
    /\ Named(i) # <<>>
    /\ Tx3Load(Named(i)[1].content).ok
    /\ \E k \in 1..Len(Tx3Load(Named(i)[1].content).txs) :
          Tx3Load(Named(i)[1].content).txs[k].name = decoded[i].transaction_name

\* the parameters the compiler reports for the decoded transaction
ParamsFound(i) ==
    LET txs == Tx3Load(Named(i)[1].content).txs
    IN  txs[CHOOSE k \in 1..Len(txs) : txs[k].name = decoded[i].transaction_name].params

\* C1: an invocation that got the Resolver Service's answer returns, on
\* success, a success result whose only content is the service's tx string,
\* and on failure a reported internal error whose message is
\* "Error resolving transaction: " followed by the service's message.
C1_ResolverAnswerReturned ==
    \A i \in Invs :
        reply[i] # <<>> =>
            IF reply[i][1].ok
            THEN /\ outcome[i].kind = "success"
                 /\ Len(outcome[i].content) = 1
                 /\ outcome[i].content[1].type = "text"
                 /\ outcome[i].content[1].text = reply[i][1].tx
            ELSE /\ outcome[i].kind = "error"
                 /\ outcome[i].code = INTERNAL_ERROR
                 /\ outcome[i].message.fmt = "Error resolving transaction: {}"
                 /\ outcome[i].message.args = <<reply[i][1].message>>

C1_Witness ==
    \E i \in Invs :
        /\ reply[i] # <<>> /\ ~reply[i][1].ok
        /\ decoded[i].operation_name = W_resolve
        /\ sent[i][1].body.args # {}
        /\ outcome[i].kind = "error"

\* C2: a describe invocation whose protocol and transaction exist returns
\* a success payload with the decoded protocol and transaction names and a
\* parameters map with exactly one entry (name, type) per parameter the
\* compiler reports, and never calls the Resolver Service, whatever the
\* arguments.
C2_DescribeReturnsParameters ==
    \A i \in Invs :
        (TxFound(i) /\ decoded[i].operation_name = W_describe) =>
            /\ pc[i] = "done"
            /\ trpCalls[i] = 0 /\ sent[i] = <<>>
            /\ outcome[i].kind = "success"
            /\ Len(outcome[i].content) = 1
            /\ LET c == outcome[i].content[1]
                   ps == ParamsFound(i)
               IN  /\ c.protocol = decoded[i].protocol_name
                   /\ c.transaction = decoded[i].transaction_name
                   /\ Len(c.parameters) = Len(ps)
                   /\ \A k \in 1..Len(ps) :
                         \E j \in 1..Len(c.parameters) :
                            /\ c.parameters[j].key = ps[k].name
                            /\ c.parameters[j].value = TypeDebug(ps[k].type)

C2_Witness ==
    \E i \in Invs :
        /\ TxFound(i) /\ decoded[i].operation_name = W_describe
        /\ request[i].arguments # <<>>
        /\ \E k \in 1..Len(request[i].arguments[1]) :
              request[i].arguments[1][k].name = <<"z">>
        /\ outcome[i].kind = "success"
        /\ Len(outcome[i].content[1].parameters) = 5

\* the (protocol, transaction) pairs of a list of definitions that compile,
\* protocols in the loader's order, transactions in the compiler's
RECURSIVE TxPairs(_)
TxPairs(ps) ==
    IF ps = <<>> THEN <<>>
    ELSE [k \in 1..Len(Tx3Load(Head(ps).content).txs) |->
             [protocol |-> Head(ps).name, tx |-> Tx3Load(Head(ps).content).txs[k]]]
         \o TxPairs(Tail(ps))

AllCompile(ps) == \A k \in 1..Len(ps) : Tx3Load(ps[k].content).ok

\* C3: when every loaded definition compiles, list_tools returns two
\* descriptors per transaction, in the loader's and the compiler's order,
\* resolve-<p>-<t> immediately followed by describe-<p>-<t>; a resolve
\* schema has one "string" property per parameter and requires each of
\* them; a describe schema is empty.
C3_TwoDescriptorsPerTransaction ==
    \A i \in Invs :
        (IsList(i) /\ FetchedOk(i) /\ AllCompile(protocols[i])) =>
            LET pairs == TxPairs(protocols[i])
                tools == outcome[i].tools
            IN  /\ outcome[i].kind = "tools"
                /\ Len(tools) = 2 * Len(pairs)
                /\ \A k \in 1..Len(pairs) :
                      LET r == tools[2 * k - 1]
                          d == tools[2 * k]
                          ps == pairs[k].tx.params
                      IN  /\ r.name = W_resolve \o <<"-">> \o pairs[k].protocol
                                       \o <<"-">> \o pairs[k].tx.name
                          /\ d.name = W_describe \o <<"-">> \o pairs[k].protocol
                                       \o <<"-">> \o pairs[k].tx.name
                          /\ Len(r.input_schema.properties) = Len(ps)
                          /\ \A n \in 1..Len(ps) :
                                /\ \E j \in 1..Len(r.input_schema.properties) :
                                      /\ r.input_schema.properties[j].key = ps[n].name
                                      /\ r.input_schema.properties[j].value = "string"
                                /\ \E j \in 1..Len(r.input_schema.required) :
                                      r.input_schema.required[j] = ps[n].name
                          /\ Len(r.input_schema.required) = Len(ps)
                          /\ d.input_schema.keys = {}
                          /\ d.input_schema.properties = <<>>
                          /\ d.input_schema.required = <<>>

C3_Witness ==
    \E i \in Invs :
        /\ IsList(i) /\ FetchedOk(i) /\ AllCompile(protocols[i])
        /\ Len(protocols[i]) = 2
        /\ protocols[i][1].name # protocols[i][2].name
        /\ Len(outcome[i].tools) = 6
        /\ Len(outcome[i].tools[1].input_schema.required) = 5

\* the number of components a split on "-" gives
Components(name) == Cardinality({k \in 1..Len(name) : name[k] = "-"}) + 1

\* C4: a call_tool invocation whose operation name has fewer than three
\* components returns a reported resource-not-found error, "Protocol name
\* not found" with one component and "Transaction name not found" with two,
\* and contacts neither the Registry Source nor the Resolver Service.
C4_MissingComponentReported ==
    \A i \in Invs :
        (IsCall(i) /\ Components(request[i].name) < 3) =>
            /\ pc[i] = "done"
            /\ outcome[i].kind = "error"
            /\ outcome[i].code = RESOURCE_NOT_FOUND
            /\ outcome[i].message.fmt =
                  (IF Components(request[i].name) = 1 THEN "Protocol name not found"
                   ELSE "Transaction name not found")
            /\ regCalls[i] = 0 /\ fetched[i] = <<>>
            /\ trpCalls[i] = 0 /\ sent[i] = <<>>

\* C5: a call_tool invocation whose decoded protocol name is the name of no
\* loaded definition returns a reported resource-not-found error "Protocol
\* <name> not found" and does not call the Resolver Service; when the
\* protocol exists and the compiler has no transaction of the decoded name,
\* it returns a reported resource-not-found error "Transaction <t> not
\* found for protocol <p>".
C5_UnknownProtocolOrTransactionReported ==
    \A i \in Invs :
        (IsCall(i) /\ Components(request[i].name) >= 3 /\ FetchedOk(i)) =>
            /\ Named(i) = <<>> =>
                  /\ outcome[i].kind = "error"
                  /\ outcome[i].code = RESOURCE_NOT_FOUND
                  /\ outcome[i].message.fmt = "Protocol {} not found"
                  /\ outcome[i].message.args = <<decoded[i].protocol_name>>
                  /\ trpCalls[i] = 0
            /\ (Named(i) # <<>> /\ Tx3Load(Named(i)[1].content).ok /\ ~TxFound(i)) =>
                  /\ outcome[i].kind = "error"
                  /\ outcome[i].code = RESOURCE_NOT_FOUND
                  /\ outcome[i].message.fmt = "Transaction {} not found for protocol {}"
                  /\ outcome[i].message.args =
                        <<decoded[i].transaction_name, decoded[i].protocol_name>>
                  /\ trpCalls[i] = 0

\* the arguments the caller supplied, in the object's iteration order
ArgsOf(i) == IF request[i].arguments = <<>> THEN <<>> ELSE request[i].arguments[1]

IsResolveCall(i) == TxFound(i) /\ decoded[i].operation_name # W_describe

Known(i, a) == \E k \in 1..Len(ParamsFound(i)) : ParamsFound(i)[k].name = a.name

TypeOf(i, a) ==
    ParamsFound(i)[CHOOSE k \in 1..Len(ParamsFound(i)) : ParamsFound(i)[k].name = a.name].type

\* a string value that is no literal of its declared Int or Bool type
Malformed(i, a) ==
    /\ a.value.tag = "String" /\ Known(i, a)
    /\ \/ TypeOf(i, a) = TypeInt /\ ~ParseI128(a.value.s).ok
       \/ TypeOf(i, a) = TypeBool /\ a.value.s \notin {W_true, W_false}

\* an argument the coercion accepts
Accepted(i, a) ==
    /\ a.value.tag = "String" /\ Known(i, a) /\ ~Malformed(i, a)
    /\ TypeOf(i, a) \in {TypeInt, TypeBool, TypeBytes, TypeAddress}

\* C6: a resolve invocation with an argument name that is no key of the
\* parameter-type map returns a reported error and does not call the
\* Resolver Service; the error is the not-found error naming that
\* parameter when the arguments before it are accepted.
C6_UnknownParameterReported ==
    \A i \in Invs :
        IsResolveCall(i) =>
            \A k \in 1..Len(ArgsOf(i)) :
                ~Known(i, ArgsOf(i)[k]) =>
                    /\ outcome[i].kind = "error"
                    /\ trpCalls[i] = 0
                    /\ (/\ ArgsOf(i)[k].value.tag = "String"
                        /\ \A j \in 1..(k - 1) : Accepted(i, ArgsOf(i)[j])) =>
                          /\ outcome[i].code = RESOURCE_NOT_FOUND
                          /\ outcome[i].message.fmt =
                                "Parameter {} not found for transaction {} in protocol {}"
                          /\ outcome[i].message.args =
                                <<ArgsOf(i)[k].name, decoded[i].transaction_name,
                                  decoded[i].protocol_name>>

\* C7: a string value of a parameter declared Int or Bool coerces, when it
\* is a literal of the type, to the native value ("42" to Int 42, "true" to
\* Bool true); when it is not, the invocation returns a reported error;
\* a value of a Bytes or Address parameter is passed on unchanged as the
\* String variant.
C7_CoercionByDeclaredType ==
    \A i \in Invs :
        IsResolveCall(i) =>
            /\ sent[i] # <<>> =>
                  \A k \in 1..Len(ArgsOf(i)) :
                      LET a == ArgsOf(i)[k]
                          v == (CHOOSE e \in sent[i][1].body.args : e.key = a.name).value
                      IN  /\ \E e \in sent[i][1].body.args : e.key = a.name
                          /\ (TypeOf(i, a) = TypeInt /\ a.value.s = <<"4", "2">>) =>
                                (v.tag = "Int" /\ v.int = 42)
                          /\ (TypeOf(i, a) = TypeInt /\ a.value.s = <<"-", "7">>) =>
                                (v.tag = "Int" /\ v.int = 0 - 7)
                          /\ (TypeOf(i, a) = TypeBool /\ a.value.s = W_true) =>
                                (v.tag = "Bool" /\ v.bool = TRUE)
                          /\ TypeOf(i, a) \in {TypeBytes, TypeAddress} =>
                                (v.tag = "String" /\ v.str = a.value.s)
            /\ (\E k \in 1..Len(ArgsOf(i)) : Malformed(i, ArgsOf(i)[k])) =>
                  outcome[i].kind = "error"

\* C8: within one invocation the Registry Source is queried at most once
\* and the Resolver Service is called at most once, and a failed call ends
\* the invocation: nothing is attempted again.
C8_EachExternalCallOnce ==
    \A i \in Invs :
        /\ regCalls[i] <= 1
        /\ trpCalls[i] <= 1
        /\ fetched[i] # <<>> => regCalls[i] = 1
        /\ reply[i] # <<>> => trpCalls[i] = 1
        /\ (fetched[i] # <<>> /\ ~fetched[i][1].ok) =>
              (pc[i] = "done" /\ trpCalls[i] = 0 /\ outcome[i].kind = "panic")
        /\ (reply[i] # <<>> /\ ~reply[i][1].ok) => pc[i] = "done"
        /\ pc[i] = "done" => ~ENABLED (StartListTools(i) \/ RegistryFail(i)
                                        \/ ListToolsRespond(i) \/ CallToolRespond(i))

C8_Witness ==
    \E i \in Invs :
        /\ pc[i] = "done" /\ regCalls[i] = 1 /\ trpCalls[i] = 1
        /\ reply[i] # <<>> /\ ~reply[i][1].ok

\* C9: for a successful registry response the loader returns one
\* definition per node whose protocol is present, in the order of the
\* nodes, named "<scope>_<name>" and carrying that protocol; the result is
\* empty when no node has a protocol or the response has no data, and that
\* is no error for the caller.
C9_LoaderKeepsNodesWithProtocol ==
    \A i \in Invs :
        FetchedOk(i) =>
            LET nodes == IF fetched[i][1].data = <<>> THEN <<>> ELSE fetched[i][1].data[1]
                present == {k \in 1..Len(nodes) : nodes[k].protocol # <<>>}
                got == protocols[i]
            IN  /\ Len(got) = Cardinality(present)
                /\ \E f \in [1..Len(got) -> 1..Len(nodes)] :
                      /\ {f[k] : k \in 1..Len(got)} = present
                      /\ \A j, k \in 1..Len(got) : j < k => f[j] < f[k]
                      /\ \A k \in 1..Len(got) :
                            /\ got[k].name = nodes[f[k]].scope \o <<"_">> \o nodes[f[k]].name
                            /\ got[k].content = nodes[f[k]].protocol[1]
                /\ (present = {} /\ IsList(i)) =>
                      (outcome[i].kind = "tools" /\ outcome[i].tools = <<>>)

C9_Witness ==
    \E i \in Invs :
        /\ FetchedOk(i) /\ fetched[i][1].data # <<>>
        /\ Len(fetched[i][1].data[1]) = 2
        /\ fetched[i][1].data[1][1].protocol = <<>>
        /\ Len(protocols[i]) = 1
        /\ protocols[i][1].name = <<"a", "_", "b">>

\* what an invocation returns as a function of its request, of the registry
\* response it received and of the resolver answer it received
ResultOf(req, fet, rep) ==
    IF req.method = "none" THEN NoOutcome
    ELSE IF req.method = "call_tool" /\ ~Decode(req.name).ok THEN Decode(req.name).outcome
    ELSE IF fet = <<>> THEN NoOutcome
    ELSE IF ~fet[1].ok THEN Panic("", Fmt("run_graphql", <<>>))
    ELSE IF req.method = "list_tools" THEN list_tools(run_protocols_query(fet[1].data))
    ELSE LET r == call_tool_resume(Decode(req.name).names, req.arguments,
                                   run_protocols_query(fet[1].data))
         IN  IF r.next = "done" THEN r.outcome
             ELSE IF rep = <<>> THEN NoOutcome
             ELSE call_tool_finish(rep[1])

\* the state of one invocation
Local(i) ==
    <<pc[i], request[i], decoded[i], fetched[i], protocols[i], sent[i], reply[i],
      regCalls[i], trpCalls[i], outcome[i]>>

C10_OwnInputsOnly ==
    /\ server = NewServer
    /\ \A i \in Invs :
          /\ outcome[i] = ResultOf(request[i], fetched[i], reply[i])
          /\ FetchedOk(i) =>
                (regCalls[i] = 1 /\ protocols[i] = run_protocols_query(fetched[i][1].data))
          /\ sent[i] # <<>> =>
                (sent[i][1].endpoint = "TRP_URL" /\ sent[i][1].key = "TRP_KEY")
    /\ \A i, j \in Invs :
          (request[i] = request[j] /\ fetched[i] = fetched[j] /\ reply[i] = reply[j]) =>
              outcome[i] = outcome[j]

C10_OneInvocationPerStep ==
    /\ server' = server
    /\ \A i, j \in Invs : i # j => (Local(i)' = Local(i) \/ Local(j)' = Local(j))

\* C10: under any interleaving of in-flight invocations, with the registry
\* changing between them, the server's fields keep the values of its
\* construction, a step of one invocation leaves every other invocation's
\* state alone, each invocation works on the definitions it fetched itself,
\* and what it returns is a function of its own request and of the registry
\* and resolver responses it received.
C10_NoSharedState == [] C10_OwnInputsOnly /\ [][C10_OneInvocationPerStep]_vars

C10_Witness ==
    \E i, j \in Invs :
        /\ pc[i] = "call_resolve" /\ pc[j] = "done"
        /\ request[i] = request[j]
        /\ FetchedOk(i) /\ FetchedOk(j)
        /\ fetched[i] # fetched[j]
        /\ fetched[j][1].data # registry
        /\ outcome[j].kind = "panic"

\* the (definition, transaction) pairs the descriptors are built from, two
\* descriptors per pair
RECURSIVE TxSources(_)
TxSources(ps) ==
    IF ps = <<>> THEN <<>>
    ELSE [k \in 1..Len(Tx3Load(Head(ps).content).txs) |->
             [protocol |-> Head(ps), tx |-> Tx3Load(Head(ps).content).txs[k]]]
         \o TxSources(Tail(ps))

\* C11: a call_tool of an operation name that a list_tools emitted, against
\* the same registry contents, decodes the name to exactly three
\* components, with the action of the name's prefix, and selects the
\* protocol definition and the transaction the descriptor was built from.
C11_ListedNameRoundTrip ==
    \A i, j \in Invs :
        (IsCall(i) /\ IsList(j) /\ outcome[j].kind = "tools"
                   /\ FetchedOk(i) /\ fetched[i] = fetched[j]) =>
            \A k \in 1..Len(outcome[j].tools) :
                request[i].name = outcome[j].tools[k].name =>
                    LET src == TxSources(protocols[j])[(k + 1) \div 2]
                    IN  /\ Components(request[i].name) = 3
                        /\ decoded[i].operation_name =
                              (IF k % 2 = 1 THEN W_resolve ELSE W_describe)
                        /\ Named(i) # <<>>
                        /\ Named(i)[1] = src.protocol
                        /\ decoded[i].transaction_name = src.tx.name
                        /\ TxFound(i)

=============================================================================
